---------------------------- MODULE Spec2Model ----------------------------
(***************************************************************************)
(* profit-cli: the session orchestrator (src/src/app.rs), the control      *)
(* loop, the setup wizard and the polling task (src/src/main.rs).          *)
(*                                                                         *)
(* Conventions.                                                            *)
(*  - Strings the program builds (API keys, the wizard's input buffer) are *)
(*    sequences of one-character strings; names and ids are opaque.        *)
(*  - Indices keep the source's 0-based values; sequences are read at +1.  *)
(*  - y_pos (an f64) is kept in fixed point, Scale units per row; the      *)
(*    easing step rounds down.  For every distance below 200 rows this     *)
(*    settles a unit on the same tick as the f64 computation.              *)
(*  - A Payment is [id, amount_cents, provider]; currency, status and      *)
(*    created_at are never read by the orchestrator.                       *)
(*  - Wall-clock time is measured in control-loop iterations.              *)
(***************************************************************************)
EXTENDS Integers, Sequences, FiniteSets

VARIABLES
    \* App (src/src/app.rs:22-39)
    phase, bills, total_cents, session_payments, start_time, seen_ids,
    celebration_tick, setup_cursor, setup_currency_idx, setup_input,
    setup_step, provider_configs, current_provider_idx, pending_bills,
    config,
    \* locals of run_app (src/src/main.rs:64-72) and its position in the loop
    channel, poll_handle, tick_count, key, pc,
    \* the polling task's position (src/src/main.rs:331-348) and the body of
    \* the HTTP response the provider it awaits is converting
    poll_pos, response,
    \* the terminal's height, read by terminal.size()
    term_h

wizard_vars == <<setup_cursor, setup_currency_idx, setup_input, setup_step,
                 provider_configs, current_provider_idx>>
ledger_vars == <<total_cents, session_payments, seen_ids>>
vars == <<phase, bills, total_cents, session_payments, start_time, seen_ids,
          celebration_tick, setup_cursor, setup_currency_idx, setup_input,
          setup_step, provider_configs, current_provider_idx, pending_bills,
          config, channel, poll_handle, tick_count, key, pc, poll_pos,
          response, term_h>>

-----------------------------------------------------------------------------
(* Bounds of the model *)

\* control-loop iterations explored once the session has left Setup
MaxTicks == 14
\* the same for the long runs (SpecLong), which outlast a whole celebration
LongTicks == 110
\* control-loop iterations explored while the session is in Setup
MaxSetupTicks == 4
\* the polling task fetches only during the PollWindow iterations that
\* follow the session's start time
PollWindow == 2
\* batches in flight in the (unbounded) channel
MaxChan == 1
\* characters typed into the wizard's input buffer
MaxInput == 1
\* keys pressed in the wizard's own runs (SpecWizard)
WizardKeys == 13
\* control-loop iterations of the polling runs (SpecPoll)
PollTicks == 7
\* control-loop iterations of the runs under fairness (SpecFair)
FairTicks == 5
\* batches the channel holds in the runs under fairness
WideChan == 2
\* the terminal is resized only during the first ResizeWindow iterations
ResizeWindow == 1

\* payment ids a provider can return
Ids == {"p1", "p2"}
\* terminal heights
Heights == {6, 9, 12}
\* characters that can be typed besides ' ' and 'q'
Chars == {"a", "|"}
\* amounts (minor units) an Adyen response can carry: any i64
AdyenAmounts == {-500, 40, 250, 1550}

-----------------------------------------------------------------------------
(* Program constants *)

BillHeight == 3
FloorOffset == 4
FullMargin == 6
MaxUnitsPerPayment == 10
UnitDenomination == 100
CelebrationTicks == 100
SpawnStride == 3
U16 == 65536
Scale == 10 * 10 * 10

PROVIDERS == <<"Mock", "Mollie", "Adyen">>
CURRENCIES == <<"EUR", "USD", "GBP", "JPY", "CHF", "CAD", "AUD">>

None == "None"

Min(a, b) == IF a < b THEN a ELSE b
Abs(a) == IF a < 0 THEN -a ELSE a
SatSub(a, b) == IF a < b THEN 0 ELSE a - b

-----------------------------------------------------------------------------
(* App::add_payment *)

\* mutant of UnitsFor: the cap of 10 is forgotten
UnitsForUncapped(amount) ==
    LET units == amount \div UnitDenomination
    IN  IF units < 0 THEN 0 ELSE units

\* the number of bills queued for an amount: the range 0..units.min(10)
UnitsFor(amount) ==
    LET units == amount \div UnitDenomination
        n == Min(units, MaxUnitsPerPayment)
    IN  IF n < 0 THEN 0 ELSE n

NewBills(payment) ==
    [i \in 1..UnitsFor(payment.amount_cents) |->
        [amount_cents |-> UnitDenomination, provider |-> payment.provider]]

\* add_payment recording a payment in the history before looking at its id
add_payment_logs_all(l, payment) ==
    IF payment.id \in l.seen_ids
    THEN [l EXCEPT !.session_payments = Append(@, payment)]
    ELSE [seen_ids |-> l.seen_ids \cup {payment.id},
          total_cents |-> l.total_cents + payment.amount_cents,
          pending_bills |-> l.pending_bills \o NewBills(payment),
          session_payments |-> Append(l.session_payments, payment)]

\* mutant of add_payment: the seen-id check is forgotten
add_payment_no_dedup(l, payment) ==
    [seen_ids |-> l.seen_ids \cup {payment.id},
     total_cents |-> l.total_cents + payment.amount_cents,
     pending_bills |-> l.pending_bills \o NewBills(payment),
     session_payments |-> Append(l.session_payments, payment)]

\* the ledger is [seen_ids, total_cents, pending_bills, session_payments]
add_payment(l, payment) ==
    IF payment.id \in l.seen_ids
    THEN l
    ELSE [seen_ids |-> l.seen_ids \cup {payment.id},
          total_cents |-> l.total_cents + payment.amount_cents,
          pending_bills |-> l.pending_bills \o NewBills(payment),
          session_payments |-> Append(l.session_payments, payment)]

\* for p in payments { app.add_payment(p) }
RECURSIVE AddPayments(_, _)
AddPayments(l, payments) ==
    IF payments = <<>> THEN l
    ELSE AddPayments(add_payment(l, Head(payments)), Tail(payments))

Ledger ==
    [seen_ids |-> seen_ids, total_cents |-> total_cents,
     pending_bills |-> pending_bills, session_payments |-> session_payments]

-----------------------------------------------------------------------------
(* The animation engine *)

SettledCount(bs) == Cardinality({i \in 1..Len(bs) : bs[i].settled})

calculate_stack_position(bs, terminal_height) ==
    SatSub(SatSub(terminal_height, FloorOffset),
           (SettledCount(bs) * BillHeight) % U16)

spawn_next_bill(bs, pb, terminal_height) ==
    Append(bs, [amount_cents |-> pb.amount_cents,
                y_pos |-> 0,
                target_y |-> calculate_stack_position(bs, terminal_height),
                settled |-> FALSE,
                age_ticks |-> 0,
                provider |-> pb.provider])

\* tick_animations with a unit that covers half of the remaining distance
TickBillHalf(bill) ==
    IF bill.settled
    THEN [bill EXCEPT !.age_ticks = @ + 1]
    ELSE LET distance == bill.target_y * Scale - bill.y_pos
         IN  IF Abs(distance) < Scale
             THEN [bill EXCEPT !.y_pos = bill.target_y * Scale,
                               !.settled = TRUE,
                               !.age_ticks = @ + 1]
             ELSE [bill EXCEPT !.y_pos = @ + (distance \div 2),
                               !.age_ticks = @ + 1]

\* tick_animations with a settling that leaves the unit where it is
TickBillNoSnap(bill) ==
    IF bill.settled
    THEN [bill EXCEPT !.age_ticks = @ + 1]
    ELSE LET distance == bill.target_y * Scale - bill.y_pos
         IN  IF Abs(distance) < Scale
             THEN [bill EXCEPT !.settled = TRUE,
                               !.age_ticks = @ + 1]
             ELSE [bill EXCEPT !.y_pos = @ + ((distance * 3) \div 10),
                               !.age_ticks = @ + 1]

TickBill(bill) ==
    IF bill.settled
    THEN [bill EXCEPT !.age_ticks = @ + 1]
    ELSE LET distance == bill.target_y * Scale - bill.y_pos
         IN  IF Abs(distance) < Scale
             THEN [bill EXCEPT !.y_pos = bill.target_y * Scale,
                               !.settled = TRUE,
                               !.age_ticks = @ + 1]
             ELSE [bill EXCEPT !.y_pos = @ + ((distance * 3) \div 10),
                               !.age_ticks = @ + 1]

tick_animations(bs) == [i \in 1..Len(bs) |-> TickBill(bs[i])]

\* mutant of is_screen_full: > for >=
is_screen_full_strict(bs, terminal_height) ==
    (SettledCount(bs) * BillHeight) % U16 > SatSub(terminal_height, FullMargin)

is_screen_full(bs, terminal_height) ==
    (SettledCount(bs) * BillHeight) % U16 >= SatSub(terminal_height, FullMargin)

-----------------------------------------------------------------------------
(* The setup wizard: handle_setup_input works on the App fields below *)

SetupState ==
    [setup_step |-> setup_step, setup_cursor |-> setup_cursor,
     setup_currency_idx |-> setup_currency_idx, setup_input |-> setup_input,
     provider_configs |-> provider_configs,
     current_provider_idx |-> current_provider_idx, config |-> config]

\* KeyCode::Char(c): the character a key types, "" for a key that types none
CharOf(k) ==
    IF k = "Space" THEN " " ELSE IF k = "q" \/ k \in Chars THEN k ELSE ""

\* mutant of NeedsApiKey: Mock is not told apart
NeedsApiKeyAnyName(p) == p.enabled /\ p.api_key = <<>>

\* |p| p.enabled && p.name != "Mock" && p.api_key.is_empty()
NeedsApiKey(p) == p.enabled /\ p.name # "Mock" /\ p.api_key = <<>>

\* mutant of PositionFrom: the last match instead of the first
PositionFromLast(pcs, start) ==
    LET hits == {i \in start..(Len(pcs) - 1) : NeedsApiKey(pcs[i + 1])}
    IN  IF hits = {} THEN -1
        ELSE (CHOOSE i \in hits : \A j \in hits : i >= j) - start

\* provider_configs[start..].iter().position(..): the 0-based offset, or -1
PositionFrom(pcs, start) ==
    LET hits == {i \in start..(Len(pcs) - 1) : NeedsApiKey(pcs[i + 1])}
    IN  IF hits = {} THEN -1
        ELSE (CHOOSE i \in hits : \A j \in hits : i <= j) - start

advance_to_next_provider_or_confirm(w) ==
    LET start == w.current_provider_idx + 1
        idx == PositionFrom(w.provider_configs, start)
    IN  IF idx >= 0
        THEN [w EXCEPT !.current_provider_idx = start + idx,
                       !.setup_input = <<>>,
                       !.setup_step = "ProviderApiKey"]
        ELSE [w EXCEPT !.setup_step = "Confirm"]

\* mutant of FinalProviders: disabled providers are listed too
FinalProvidersAll(pcs) ==
    [i \in 1..Len(pcs) |->
        [provider |-> pcs[i].name,
         api_key |-> IF pcs[i].name = "Adyen"
                     THEN pcs[i].api_key \o <<"|">> \o pcs[i].merchant_account
                     ELSE pcs[i].api_key]]

\* the final config built at Confirm: one PspConfig per enabled provider
FinalProviders(pcs) ==
    LET Cfg(p) == [provider |-> p.name,
                   api_key |-> IF p.name = "Adyen"
                               THEN p.api_key \o <<"|">> \o p.merchant_account
                               ELSE p.api_key]
        F[i \in 0..Len(pcs)] ==
            IF i = 0 THEN <<>>
            ELSE IF pcs[i].enabled THEN Append(F[i - 1], Cfg(pcs[i]))
            ELSE F[i - 1]
    IN  F[Len(pcs)]

\* the currency step with a Down that does not stop at the last currency
StepCurrencyUnbounded(w, k) ==
    CASE k = "Up" ->
           IF w.setup_currency_idx > 0
           THEN [w EXCEPT !.setup_currency_idx = @ - 1] ELSE w
      [] k = "Down" -> [w EXCEPT !.setup_currency_idx = @ + 1]
      [] k = "Enter" ->
           [w EXCEPT !.config.currency = CURRENCIES[w.setup_currency_idx + 1],
                     !.setup_step = "ProviderSelect",
                     !.setup_cursor = 0]
      [] OTHER -> w

StepCurrency(w, k) ==
    CASE k = "Up" ->
           IF w.setup_currency_idx > 0
           THEN [w EXCEPT !.setup_currency_idx = @ - 1] ELSE w
      [] k = "Down" ->
           IF w.setup_currency_idx < Len(CURRENCIES) - 1
           THEN [w EXCEPT !.setup_currency_idx = @ + 1] ELSE w
      [] k = "Enter" ->
           [w EXCEPT !.config.currency = CURRENCIES[w.setup_currency_idx + 1],
                     !.setup_step = "ProviderSelect",
                     !.setup_cursor = 0]
      [] OTHER -> w

\* mutant of any_enabled: the check is forgotten
any_enabled_unchecked(pcs) == TRUE

\* provider_configs.iter().any(|p| p.enabled)
any_enabled(pcs) == \E i \in 1..Len(pcs) : pcs[i].enabled

StepProviderSelect(w, k) ==
    CASE k = "Up" ->
           IF w.setup_cursor > 0 THEN [w EXCEPT !.setup_cursor = @ - 1] ELSE w
      [] k = "Down" ->
           IF w.setup_cursor < Len(w.provider_configs) - 1
           THEN [w EXCEPT !.setup_cursor = @ + 1] ELSE w
      [] k = "Space" ->
           [w EXCEPT !.provider_configs[w.setup_cursor + 1].enabled = ~@]
      [] k = "Enter" ->
           IF any_enabled(w.provider_configs)
           THEN LET idx == PositionFrom(w.provider_configs, 0)
                IN  IF idx >= 0
                    THEN [w EXCEPT !.current_provider_idx = idx,
                                   !.setup_input = <<>>,
                                   !.setup_step = "ProviderApiKey"]
                    ELSE [w EXCEPT !.setup_step = "Confirm"]
           ELSE w
      [] OTHER -> w

\* String::pop
Pop(s) == IF s = <<>> THEN s ELSE SubSeq(s, 1, Len(s) - 1)

StepProviderApiKey(w, k) ==
    CASE CharOf(k) # "" -> [w EXCEPT !.setup_input = Append(@, CharOf(k))]
      [] k = "Backspace" -> [w EXCEPT !.setup_input = Pop(@)]
      [] k = "Enter" ->
           IF w.setup_input # <<>>
           THEN LET w1 == [w EXCEPT
                             !.provider_configs[w.current_provider_idx + 1].api_key
                                 = w.setup_input,
                             !.setup_input = <<>>]
                IN  IF w1.provider_configs[w1.current_provider_idx + 1].name = "Adyen"
                    THEN [w1 EXCEPT !.setup_step = "ProviderMerchantAccount"]
                    ELSE advance_to_next_provider_or_confirm(w1)
           ELSE w
      [] k = "Esc" -> [w EXCEPT !.setup_input = <<>>,
                                !.setup_step = "ProviderSelect"]
      [] OTHER -> w

\* the merchant step with an Esc that commits the buffer
StepMerchantEscCommits(w, k) ==
    CASE CharOf(k) # "" -> [w EXCEPT !.setup_input = Append(@, CharOf(k))]
      [] k = "Backspace" -> [w EXCEPT !.setup_input = Pop(@)]
      [] k = "Enter" ->
           IF w.setup_input # <<>>
           THEN advance_to_next_provider_or_confirm(
                    [w EXCEPT
                       !.provider_configs[w.current_provider_idx + 1].merchant_account
                           = w.setup_input,
                       !.setup_input = <<>>])
           ELSE w
      [] k = "Esc" ->
           [w EXCEPT
              !.provider_configs[w.current_provider_idx + 1].merchant_account
                  = w.setup_input,
              !.setup_input = <<>>,
              !.setup_step = "ProviderApiKey"]
      [] OTHER -> w

StepProviderMerchantAccount(w, k) ==
    CASE CharOf(k) # "" -> [w EXCEPT !.setup_input = Append(@, CharOf(k))]
      [] k = "Backspace" -> [w EXCEPT !.setup_input = Pop(@)]
      [] k = "Enter" ->
           IF w.setup_input # <<>>
           THEN advance_to_next_provider_or_confirm(
                    [w EXCEPT
                       !.provider_configs[w.current_provider_idx + 1].merchant_account
                           = w.setup_input,
                       !.setup_input = <<>>])
           ELSE w
      [] k = "Esc" -> [w EXCEPT !.setup_input = <<>>,
                                !.setup_step = "ProviderApiKey"]
      [] OTHER -> w

StepConfirm(w, k) ==
    CASE k = "Enter" ->
           [w EXCEPT !.config.providers = FinalProviders(w.provider_configs)]
      [] k = "Esc" -> [w EXCEPT !.setup_step = "ProviderSelect"]
      [] OTHER -> w

\* the App after the key
handle_setup_input(w, k) ==
    CASE w.setup_step = "Currency" -> StepCurrency(w, k)
      [] w.setup_step = "ProviderSelect" -> StepProviderSelect(w, k)
      [] w.setup_step = "ProviderApiKey" -> StepProviderApiKey(w, k)
      [] w.setup_step = "ProviderMerchantAccount" ->
           StepProviderMerchantAccount(w, k)
      [] w.setup_step = "Confirm" -> StepConfirm(w, k)

\* the value handle_setup_input returns: true only for Enter in Confirm
SetupComplete(w, k) == w.setup_step = "Confirm" /\ k = "Enter"

-----------------------------------------------------------------------------
(* build_providers *)

Contains(s, c) == \E i \in 1..Len(s) : s[i] = c
FirstIndex(s, c) == CHOOSE i \in 1..Len(s) : s[i] = c /\ \A j \in 1..(i - 1) : s[j] # c

\* api_key.splitn(2, '|'): the two parts around the first '|'
SplitKey(s) ==
    IF Contains(s, "|")
    THEN <<SubSeq(s, 1, FirstIndex(s, "|") - 1),
           SubSeq(s, FirstIndex(s, "|") + 1, Len(s))>>
    ELSE <<s>>

build_providers(configs) ==
    LET One(cfg) ==
            CASE cfg.provider = "Mock" ->
                   <<[name |-> "Mock", api_key |-> <<>>, merchant_account |-> <<>>]>>
              [] cfg.provider = "Adyen" ->
                   LET parts == SplitKey(cfg.api_key)
                   IN  IF Len(parts) = 2
                       THEN <<[name |-> "Adyen", api_key |-> parts[1],
                               merchant_account |-> parts[2]]>>
                       ELSE <<>>
              [] OTHER -> <<>>
        F[i \in 0..Len(configs)] ==
            IF i = 0 THEN <<>> ELSE F[i - 1] \o One(configs[i])
    IN  F[Len(configs)]

\* poll_handle: None, or Some(task) with the task's arguments; tasks counts the
\* tasks spawned so far (an assignment to poll_handle does not end the task
\* of the handle it replaces)
NoHandle == [launched |-> FALSE, providers |-> <<>>, since |-> 0, tasks |-> 0]

\* Some(tokio::spawn(poll_payments(providers, tx2, since)))
SpawnPoller(cfg, since) ==
    [launched |-> TRUE, providers |-> build_providers(cfg.providers),
     since |-> since, tasks |-> poll_handle.tasks + 1]

-----------------------------------------------------------------------------
(* What a provider's fetch_recent_payments can return *)

\* MockProvider: one payment of 2..=15 currency units
MockAmounts == {200, 1500}

Payment(id, amount, provider) ==
    [id |-> id, amount_cents |-> amount, provider |-> provider]

Ok(payments) == [ok |-> TRUE, payments |-> payments]
Err == [ok |-> FALSE, payments |-> <<>>]

\* AdyenPayment as the response body carries it: amount.value is a JSON
\* value that is an i64 or not, creationDate a string that is an RFC 3339
\* date or not; dates are measured in control-loop iterations
AdyenRecord(id, value, value_ok, date, date_ok) ==
    [psp_reference |-> id, value |-> value, value_is_i64 |-> value_ok,
     creation_date |-> date, date_is_rfc3339 |-> date_ok]

\* creation dates a record can carry: before any session start, and after
CreationDates == {-1, 1}

WellFormedRecords ==
    {AdyenRecord(id, a, TRUE, d, TRUE) :
        id \in Ids, a \in AdyenAmounts, d \in CreationDates}
BadDateRecords ==
    {AdyenRecord(id, a, TRUE, 0, FALSE) : id \in Ids, a \in AdyenAmounts}
BadValueRecords == {AdyenRecord(id, 0, FALSE, 1, TRUE) : id \in Ids}
AdyenRecords == WellFormedRecords \cup BadDateRecords \cup BadValueRecords

\* the first record of a two-record response
FirstRecords == {r \in AdyenRecords : r.value = 250 \/ ~r.value_is_i64}

\* no response has arrived for the fetch under way
NoResponse == [arrived |-> FALSE, success |-> FALSE, data |-> <<>>]

HttpResponse(success, data) ==
    [arrived |-> TRUE, success |-> success, data |-> data]

\* what the Adyen endpoint can answer: a failure (transport or status), or
\* a body with up to two records
AdyenResponses ==
    {HttpResponse(FALSE, <<>>), HttpResponse(TRUE, <<>>)}
        \cup {HttpResponse(TRUE, <<r>>) : r \in AdyenRecords}
        \cup {HttpResponse(TRUE, <<r1, r2>>) :
                  r1 \in FirstRecords, r2 \in AdyenRecords}

\* AdyenProvider::fetch_recent_payments on a response: send()? and the status
\* check fail on a failure, resp.json() fails when a value is not an i64, a
\* date that does not parse becomes now, and records before since are skipped
adyen_fetch(resp, since, now) ==
    LET Created(ap) ==
            IF ap.date_is_rfc3339 THEN ap.creation_date ELSE now
        F[i \in 0..Len(resp.data)] ==
            IF i = 0 THEN <<>>
            ELSE IF Created(resp.data[i]) < since THEN F[i - 1]
            ELSE Append(F[i - 1],
                        Payment(resp.data[i].psp_reference,
                                resp.data[i].value, "Adyen"))
    IN  IF ~resp.success THEN Err
        ELSE IF \E i \in 1..Len(resp.data) : ~resp.data[i].value_is_i64
        THEN Err
        ELSE Ok(F[Len(resp.data)])

\* MockProvider::fetch_recent_payments
mock_fetch == {Ok(<<Payment(id, a, "Mock")>>) : id \in Ids, a \in MockAmounts}

FetchResults(provider) ==
    IF provider.name = "Mock"
    THEN mock_fetch
    ELSE {adyen_fetch(r, poll_handle.since, tick_count) : r \in AdyenResponses}

-----------------------------------------------------------------------------
(* Initial state: run_app's first lines *)

\* AppConfig::default()
DefaultConfig == [currency |-> "EUR", providers |-> <<>>]

\* the configurations load_config() can find in the file
LoadedConfigs ==
    {[currency |-> "USD", providers |-> <<>>],
     [currency |-> "EUR",
      providers |-> <<[provider |-> "Mock", api_key |-> <<>>]>>],
     [currency |-> "EUR",
      providers |-> <<[provider |-> "Adyen", api_key |-> <<"a", "|", "a">>]>>]}

\* load_config(): None (no file, or a file that does not parse), or Some(cfg)
LoadOutcomes ==
    {[some |-> FALSE, cfg |-> DefaultConfig]}
        \cup {[some |-> TRUE, cfg |-> c] : c \in LoadedConfigs}

\* mutant of from_config_phase: any loaded configuration skips Setup
from_config_phase_any(loaded) == IF loaded.some THEN "Running" ELSE "Setup"

\* the phase App::new() sets, and from_config's "skip setup if already
\* configured with at least one provider"
from_config_phase(loaded) ==
    IF loaded.some /\ loaded.cfg.providers # <<>> THEN "Running" ELSE "Setup"

\* App::new(), then App::from_config for a loaded configuration
InitApp(loaded) ==
    /\ config = (IF loaded.some THEN loaded.cfg ELSE DefaultConfig)
    /\ phase = from_config_phase(loaded)
    /\ bills = <<>>
    /\ total_cents = 0
    /\ session_payments = <<>>
    /\ start_time = 0
    /\ seen_ids = {}
    /\ celebration_tick = 0
    /\ setup_cursor = 0
    /\ setup_currency_idx = 0
    /\ setup_input = <<>>
    /\ setup_step = "Currency"
    /\ provider_configs =
           [i \in 1..Len(PROVIDERS) |->
               [name |-> PROVIDERS[i], enabled |-> FALSE,
                api_key |-> <<>>, merchant_account |-> <<>>]]
    /\ current_provider_idx = 0
    /\ pending_bills = <<>>

Init ==
    /\ \E loaded \in LoadOutcomes : InitApp(loaded)
    /\ channel = <<>>
    /\ poll_handle = NoHandle
    /\ tick_count = 0
    /\ key = None
    /\ pc = "drain"
    /\ poll_pos = 0
    /\ response = NoResponse
    /\ term_h \in Heights

-----------------------------------------------------------------------------
(* The control loop of run_app, one action per block of the loop body *)

app_vars == <<phase, bills, total_cents, session_payments, start_time,
              seen_ids, celebration_tick, setup_cursor, setup_currency_idx,
              setup_input, setup_step, provider_configs, current_provider_idx,
              pending_bills, config>>

\* the iterations the model explores: max_ticks of them once out of Setup
InBudget(max_ticks) ==
    tick_count < (IF phase = "Setup" THEN MaxSetupTicks ELSE max_ticks)

\* the drain taking one batch per iteration
RecvBatchOnce(max_ticks) ==
    /\ pc = "drain"
    /\ InBudget(max_ticks)
    /\ channel # <<>>
    /\ LET l == AddPayments(Ledger, Head(channel))
       IN  /\ seen_ids' = l.seen_ids
           /\ total_cents' = l.total_cents
           /\ pending_bills' = l.pending_bills
           /\ session_payments' = l.session_payments
    /\ channel' = Tail(channel)
    /\ pc' = "spawn"
    /\ UNCHANGED <<phase, bills, start_time, celebration_tick, wizard_vars,
                   config, poll_handle, tick_count, key, poll_pos, response, term_h>>

\* while let Ok(payments) = rx.try_recv() { for p in payments { add_payment } }
RecvBatch(max_ticks) ==
    /\ pc = "drain"
    /\ InBudget(max_ticks)
    /\ channel # <<>>
    /\ LET l == AddPayments(Ledger, Head(channel))
       IN  /\ seen_ids' = l.seen_ids
           /\ total_cents' = l.total_cents
           /\ pending_bills' = l.pending_bills
           /\ session_payments' = l.session_payments
    /\ channel' = Tail(channel)
    /\ UNCHANGED <<phase, bills, start_time, celebration_tick, wizard_vars,
                   config, poll_handle, tick_count, key, pc, poll_pos, response, term_h>>

\* try_recv() finds the channel empty
DrainDone(max_ticks) ==
    /\ pc = "drain"
    /\ InBudget(max_ticks)
    /\ channel = <<>>
    /\ pc' = "spawn"
    /\ UNCHANGED <<app_vars, channel, poll_handle, tick_count, key, poll_pos, response,
                   term_h>>

\* mutant of SpawnDue: the stagger is forgotten
SpawnDueEveryTick == pending_bills # <<>> /\ phase = "Running"

\* the condition of the spawn block
SpawnDue ==
    tick_count % SpawnStride = 0 /\ pending_bills # <<>> /\ phase = "Running"

\* the spawn block taking the unit enqueued last
SpawnStepLast ==
    /\ pc = "spawn"
    /\ IF SpawnDue
       THEN /\ bills' = spawn_next_bill(bills,
                            pending_bills[Len(pending_bills)], term_h)
            /\ pending_bills' = SubSeq(pending_bills, 1,
                                       Len(pending_bills) - 1)
       ELSE UNCHANGED <<bills, pending_bills>>
    /\ pc' = "physics"
    /\ UNCHANGED <<phase, ledger_vars, start_time, celebration_tick,
                   wizard_vars, config, channel, poll_handle, tick_count, key,
                   poll_pos, response, term_h>>

SpawnStep ==
    /\ pc = "spawn"
    /\ IF SpawnDue
       THEN /\ bills' = spawn_next_bill(bills, Head(pending_bills), term_h)
            /\ pending_bills' = Tail(pending_bills)
       ELSE UNCHANGED <<bills, pending_bills>>
    /\ pc' = "physics"
    /\ UNCHANGED <<phase, ledger_vars, start_time, celebration_tick,
                   wizard_vars, config, channel, poll_handle, tick_count, key,
                   poll_pos, response, term_h>>

\* the condition under which the physics block enters Celebration
Overflow(bs, pending, terminal_height) ==
    is_screen_full(bs, terminal_height) /\ pending = <<>>

PhysicsStep ==
    /\ pc = "physics"
    /\ IF phase = "Running"
       THEN /\ bills' = tick_animations(bills)
            /\ IF Overflow(bills', pending_bills, term_h)
               THEN phase' = "Celebration" /\ celebration_tick' = 0
               ELSE UNCHANGED <<phase, celebration_tick>>
       ELSE UNCHANGED <<phase, bills, celebration_tick>>
    /\ pc' = "timer"
    /\ UNCHANGED <<ledger_vars, start_time, pending_bills, wizard_vars, config,
                   channel, poll_handle, tick_count, key, poll_pos, response, term_h>>

\* mutant of reset_session: the pending queue is not cleared
reset_session_keeps_queue ==
    /\ bills' = <<>>
    /\ celebration_tick' = 0
    /\ phase' = "Running"
    /\ UNCHANGED <<pending_bills, ledger_vars, start_time, wizard_vars, config>>

\* mutant of reset_session: the session goes back to the wizard
reset_session_to_setup ==
    /\ bills' = <<>>
    /\ pending_bills' = <<>>
    /\ celebration_tick' = 0
    /\ phase' = "Setup"
    /\ UNCHANGED <<ledger_vars, start_time, wizard_vars, config>>

\* App::reset_session
reset_session ==
    /\ bills' = <<>>
    /\ pending_bills' = <<>>
    /\ celebration_tick' = 0
    /\ phase' = "Running"
    /\ UNCHANGED <<ledger_vars, start_time, wizard_vars, config>>

\* mutant of TimerExpired: >= for >
TimerExpiredEarly(ticks) == ticks >= CelebrationTicks

\* the celebration timer has run out
TimerExpired(ticks) == ticks > CelebrationTicks

TimerStep ==
    /\ pc = "timer"
    /\ IF phase = "Celebration"
       THEN IF TimerExpired(celebration_tick + 1)
            THEN reset_session
            ELSE /\ celebration_tick' = celebration_tick + 1
                 /\ UNCHANGED <<phase, bills, pending_bills, ledger_vars,
                                start_time, wizard_vars, config>>
       ELSE UNCHANGED app_vars
    /\ pc' = "waiting"
    /\ UNCHANGED <<channel, poll_handle, tick_count, key, poll_pos, response, term_h>>

\* the waiting animation, then tick_count.wrapping_add(1); the u32 does not
\* wrap within LongTicks iterations
WaitingStep ==
    /\ pc = "waiting"
    /\ IF phase = "Running" /\ bills = <<>>
       THEN celebration_tick' = tick_count
       ELSE UNCHANGED celebration_tick
    /\ tick_count' = tick_count + 1
    /\ pc' = "event"
    /\ UNCHANGED <<phase, bills, ledger_vars, start_time, pending_bills,
                   wizard_vars, config, channel, poll_handle, key, poll_pos, response,
                   term_h>>

\* the key codes the program tells apart; "Other" is any other key
Keys == {"Up", "Down", "Enter", "Esc", "Backspace", "Space", "q", "Other"}
            \cup Chars
\* outside Setup only these are told apart
SessionKeys == {"Enter", "Space", "q", "Esc", "Other"}

\* event::poll times out, or the event is not a key event
EventNone ==
    /\ pc = "event"
    /\ key' = None
    /\ pc' = "launch"
    /\ UNCHANGED <<app_vars, channel, poll_handle, tick_count, poll_pos, response, term_h>>

\* a key event whose kind is not Press: continue
EventRelease ==
    /\ pc = "event"
    /\ key' = None
    /\ pc' = "drain"
    /\ UNCHANGED <<app_vars, channel, poll_handle, tick_count, poll_pos, response, term_h>>

\* the key would make the input buffer longer than the model explores
TooLong(k) ==
    /\ setup_step \in {"ProviderApiKey", "ProviderMerchantAccount"}
    /\ CharOf(k) # ""
    /\ Len(setup_input) >= MaxInput

\* the AppPhase::Setup arm for key k at time now: handle_setup_input and, on
\* completion, the phase, the start time and the polling task
SetupKey(k, now) ==
    \E w \in {handle_setup_input(SetupState, k)} :
    LET done == SetupComplete(SetupState, k)
    IN  /\ key' = k
        /\ setup_step' = w.setup_step
        /\ setup_cursor' = w.setup_cursor
        /\ setup_currency_idx' = w.setup_currency_idx
        /\ setup_input' = w.setup_input
        /\ provider_configs' = w.provider_configs
        /\ current_provider_idx' = w.current_provider_idx
        /\ config' = w.config
        /\ IF done
           THEN /\ phase' = "Running"
                /\ start_time' = now
                /\ poll_handle' = SpawnPoller(w.config, now)
           ELSE UNCHANGED <<phase, start_time, poll_handle>>

\* 'q' breaks out of the loop when the step, after the key, is one of the
\* first two
SetupQuits(k) ==
    /\ k = "q"
    /\ handle_setup_input(SetupState, k).setup_step
           \in {"Currency", "ProviderSelect"}

\* AppPhase::Setup: handle_setup_input, the launch on completion, the quit key
KeySetup ==
    /\ pc = "event"
    /\ phase = "Setup"
    /\ \E k \in Keys :
         /\ ~TooLong(k)
         /\ SetupKey(k, tick_count)
         /\ pc' = IF SetupQuits(k) THEN "done" ELSE "launch"
    /\ UNCHANGED <<bills, ledger_vars, celebration_tick, pending_bills, channel,
                   tick_count, poll_pos, response, term_h>>

\* A whole iteration of the loop in Setup with a key pressed: nothing is in
\* the channel (no polling task exists yet), the spawn, physics, timer and
\* waiting blocks do nothing in this phase, tick_count advances, the key is
\* handled, and the launch block finds poll_handle set if the wizard is done
SetupIteration ==
    /\ pc = "drain"
    /\ phase = "Setup"
    /\ channel = <<>>
    /\ tick_count < WizardKeys
    /\ tick_count' = tick_count + 1
    /\ \E k \in Keys :
         /\ ~TooLong(k)
         /\ SetupKey(k, tick_count + 1)
         /\ pc' = IF SetupQuits(k) THEN "done" ELSE "drain"
    /\ UNCHANGED <<bills, ledger_vars, celebration_tick, pending_bills, channel,
                   poll_pos, response, term_h>>

\* AppPhase::Running: only quit
KeyRunning ==
    /\ pc = "event"
    /\ phase = "Running"
    /\ \E k \in SessionKeys :
         /\ key' = k
         /\ pc' = IF k \in {"q", "Esc"} THEN "done" ELSE "launch"
    /\ UNCHANGED <<app_vars, channel, poll_handle, tick_count, poll_pos, response, term_h>>

\* KeyCode::Char('q') | KeyCode::Esc
QuitKeys == {"q", "Esc"}

\* mutant of ConfirmKeys: any key that does not quit confirms
ConfirmKeysAny == {"Enter", "Space", "Other"}

\* KeyCode::Enter | KeyCode::Char(' ')
ConfirmKeys == {"Enter", "Space"}

\* AppPhase::Celebration: quit, or Enter / ' ' resets the session
KeyCelebration ==
    /\ pc = "event"
    /\ phase = "Celebration"
    /\ \E k \in SessionKeys :
         /\ key' = k
         /\ pc' = IF k \in QuitKeys THEN "done" ELSE "launch"
         /\ IF k \notin QuitKeys /\ k \in ConfirmKeys
            THEN reset_session
            ELSE UNCHANGED app_vars
    /\ UNCHANGED <<channel, poll_handle, tick_count, poll_pos, response, term_h>>

\* the launch block without the test of poll_handle
LaunchStepAgain ==
    /\ pc = "launch"
    /\ IF phase = "Running" /\ config.providers # <<>>
       THEN poll_handle' = SpawnPoller(config, start_time)
       ELSE UNCHANGED poll_handle
    /\ key' = None
    /\ pc' = "drain"
    /\ UNCHANGED <<app_vars, channel, tick_count, poll_pos, response, term_h>>

\* "Start polling if we transitioned to Running from a loaded config"
LaunchStep ==
    /\ pc = "launch"
    /\ IF phase = "Running" /\ ~poll_handle.launched /\ config.providers # <<>>
       THEN poll_handle' = SpawnPoller(config, start_time)
       ELSE UNCHANGED poll_handle
    /\ key' = None
    /\ pc' = "drain"
    /\ UNCHANGED <<app_vars, channel, tick_count, poll_pos, response, term_h>>

-----------------------------------------------------------------------------
(* poll_payments: poll_pos is the index of the provider fetched next; the  *)
(* wait on the interval lies between the last provider and the first       *)

\* mutant of Send: whatever the fetch returned goes on the channel
SendAlways(chan, r) == Append(chan, r.payments)

\* the match on the fetch's result: only a non-empty Ok is sent
Send(chan, r) ==
    IF r.ok /\ r.payments # <<>> THEN Append(chan, r.payments) ELSE chan

PollFetchUpTo(max_chan) ==
    /\ pc # "done"
    /\ poll_handle.launched
    /\ tick_count < poll_handle.since + PollWindow
    /\ Len(channel) < max_chan
    /\ poll_pos < Len(poll_handle.providers)
    /\ \E r \in FetchResults(poll_handle.providers[poll_pos + 1]) :
         channel' = Send(channel, r)
    /\ poll_pos' = (poll_pos + 1) % Len(poll_handle.providers)
    /\ UNCHANGED <<app_vars, poll_handle, tick_count, key, pc, response,
                   term_h>>

PollFetch == PollFetchUpTo(MaxChan)

\* the provider the task is fetching from is named name
Fetching(name) ==
    /\ poll_pos < Len(poll_handle.providers)
    /\ poll_handle.providers[poll_pos + 1].name = name

\* MockProvider's fetch: it awaits nothing
MockFetch ==
    /\ Fetching("Mock")
    /\ PollFetch

\* the answers explored when the fetch is taken in two steps: records of one
\* amount, each id at its own place in the body
PollResponses ==
    {r \in AdyenResponses :
        \A i \in 1..Len(r.data) :
            /\ r.data[i].value_is_i64 => r.data[i].value = 250
            /\ r.data[i].psp_reference = (IF i = 1 THEN "p1" ELSE "p2")}

\* AdyenProvider's fetch in two steps.  First the endpoint answers the
\* request: send().await returns
FetchRespond ==
    /\ pc # "done"
    /\ poll_handle.launched
    /\ tick_count < poll_handle.since + PollWindow
    /\ Fetching("Adyen")
    /\ ~response.arrived
    /\ response' \in PollResponses
    /\ UNCHANGED <<app_vars, channel, poll_handle, tick_count, key, pc,
                   poll_pos, term_h>>

\* then the answer is converted, the result is matched and the task moves on
\* to the next provider
FetchConvert ==
    /\ pc # "done"
    /\ poll_handle.launched
    /\ Len(channel) < MaxChan
    /\ Fetching("Adyen")
    /\ response.arrived
    /\ channel' = Send(channel,
                       adyen_fetch(response, poll_handle.since, tick_count))
    /\ poll_pos' = (poll_pos + 1) % Len(poll_handle.providers)
    /\ response' = NoResponse
    /\ UNCHANGED <<app_vars, poll_handle, tick_count, key, pc, term_h>>

-----------------------------------------------------------------------------
(* The terminal is resized *)

Resize ==
    /\ pc # "done"
    /\ tick_count < ResizeWindow
    /\ term_h' \in Heights \ {term_h}
    /\ UNCHANGED <<app_vars, channel, poll_handle, tick_count, key, pc, poll_pos, response>>

-----------------------------------------------------------------------------

Next ==
    \/ RecvBatch(MaxTicks)
    \/ DrainDone(MaxTicks)
    \/ SpawnStep
    \/ PhysicsStep
    \/ TimerStep
    \/ WaitingStep
    \/ EventNone
    \/ EventRelease
    \/ KeySetup
    \/ KeyRunning
    \/ KeyCelebration
    \/ LaunchStep
    \/ PollFetch
    \/ Resize

Spec == Init /\ [][Next]_vars

\* Long runs: a session started from a loaded configuration that names the
\* Mock provider, followed for LongTicks iterations
InitLong ==
    /\ Init
    /\ phase = "Running"
    /\ config.providers[1].provider = "Mock"

NextLong ==
    \/ RecvBatch(LongTicks)
    \/ DrainDone(LongTicks)
    \/ SpawnStep
    \/ PhysicsStep
    \/ TimerStep
    \/ WaitingStep
    \/ EventNone
    \/ EventRelease
    \/ KeyRunning
    \/ KeyCelebration
    \/ LaunchStep
    \/ PollFetch
    \/ Resize

SpecLong == InitLong /\ [][NextLong]_vars

\* Runs of the loop under its scheduling: no block of run_app blocks (try_recv
\* returns at once, event::poll returns after 50 ms at the latest), so an
\* iteration that can go on does.  The configuration was loaded with Mock, no
\* key is pressed, and the channel holds up to WideChan batches.
LoopStep(max_ticks) ==
    \/ RecvBatch(max_ticks)
    \/ DrainDone(max_ticks)
    \/ SpawnStep
    \/ PhysicsStep
    \/ TimerStep
    \/ WaitingStep
    \/ EventNone
    \/ LaunchStep

NextFair ==
    \/ LoopStep(FairTicks)
    \/ PollFetchUpTo(WideChan)
    \/ Resize

SpecFair == InitLong /\ [][NextFair]_vars /\ WF_vars(LoopStep(FairTicks))

\* Polling runs: a session started from a loaded configuration that names
\* several providers, followed for PollTicks iterations with no key pressed,
\* Adyen's fetch taken in its two steps
PollConfigs ==
    {[currency |-> "EUR",
      providers |-> <<[provider |-> "Adyen", api_key |-> <<"a", "|", "a">>],
                      [provider |-> "Mock", api_key |-> <<>>]>>],
     [currency |-> "EUR",
      providers |-> <<[provider |-> "Mock", api_key |-> <<>>],
                      [provider |-> "Mollie", api_key |-> <<"a">>],
                      [provider |-> "Adyen", api_key |-> <<"a", "|", "a">>]>>]}

InitPoll ==
    /\ \E cfg \in PollConfigs : InitApp([some |-> TRUE, cfg |-> cfg])
    /\ channel = <<>>
    /\ poll_handle = NoHandle
    /\ tick_count = 0
    /\ key = None
    /\ pc = "drain"
    /\ poll_pos = 0
    /\ response = NoResponse
    /\ term_h \in {h \in Heights : \A g \in Heights : h >= g}

NextPoll ==
    \/ RecvBatch(PollTicks)
    \/ DrainDone(PollTicks)
    \/ SpawnStep
    \/ PhysicsStep
    \/ TimerStep
    \/ WaitingStep
    \/ EventNone
    \/ LaunchStep
    \/ MockFetch
    \/ FetchRespond
    \/ FetchConvert

SpecPoll == InitPoll /\ [][NextPoll]_vars

\* Wizard runs: a session that starts in Setup, one key per iteration
InitWizard ==
    /\ Init
    /\ phase = "Setup"
    /\ \A h \in Heights : term_h <= h

NextWizard == SetupIteration

SpecWizard == InitWizard /\ [][NextWizard]_vars

-----------------------------------------------------------------------------
(* Properties *)

RECURSIVE SumAmounts(_)
SumAmounts(ps) ==
    IF ps = <<>> THEN 0 ELSE Head(ps).amount_cents + SumAmounts(Tail(ps))

\* the payments a step appends to the history
Accepted == SubSeq(session_payments', Len(session_payments) + 1,
                   Len(session_payments'))

\* a step that takes a batch from the channel (only the drain does)
Receives == channel # <<>> /\ channel' = Tail(channel)

\* a step that resets the session, by the timer or by a key
Resets == phase = "Celebration" /\ phase' = "Running"

\* C1: a payment id is counted once.  In every step seen_ids only grows; the
\* history only grows at its end, by payments whose ids were not seen before
\* the step and are pairwise distinct, and the total grows by exactly their
\* amounts; the queue grows only when the history does; a batch whose ids
\* have all been seen changes none of total, history and queue.
ExactlyOnce ==
    [][ /\ seen_ids \subseteq seen_ids'
        /\ Len(session_payments') >= Len(session_payments)
        /\ SubSeq(session_payments', 1, Len(session_payments)) = session_payments
        /\ \A i \in 1..Len(Accepted) :
             /\ Accepted[i].id \notin seen_ids
             /\ \A j \in 1..Len(Accepted) : Accepted[j].id = Accepted[i].id => j = i
        /\ total_cents' = total_cents + SumAmounts(Accepted)
        /\ Len(pending_bills') > Len(pending_bills) => Accepted # <<>>
        /\ (Receives /\ \A i \in 1..Len(Head(channel)) :
                            Head(channel)[i].id \in seen_ids)
             => UNCHANGED <<total_cents, session_payments, pending_bills,
                            seen_ids>>
      ]_vars

\* C1 witness: the drain is about to receive a payment whose id was accepted
\* before with another amount
RedeliveryPending ==
    /\ pc = "drain"
    /\ channel # <<>>
    /\ \E i \in 1..Len(Head(channel)), j \in 1..Len(session_payments) :
         /\ Head(channel)[i].id = session_payments[j].id
         /\ Head(channel)[i].amount_cents # session_payments[j].amount_cents

\* the units the claim expects for an amount: min(floor(a / 100), 10)
ClaimedUnits(a) == Min(a \div 100, 10)

RECURSIVE SumClaimedUnits(_)
SumClaimedUnits(ps) ==
    IF ps = <<>> THEN 0
    ELSE ClaimedUnits(Head(ps).amount_cents) + SumClaimedUnits(Tail(ps))

\* 100-cent units tagged with the provider, as many as the amount holds
\* whole hundreds, none below 100 and ten from 1000 on
ExpectedBills(p) ==
    LET n == IF p.amount_cents < 100 THEN 0
             ELSE IF p.amount_cents >= 1000 THEN 10
             ELSE p.amount_cents \div 100
    IN  [i \in 1..n |-> [amount_cents |-> 100, provider |-> p.provider]]

RECURSIVE ExpectedBillsOf(_)
ExpectedBillsOf(ps) ==
    IF ps = <<>> THEN <<>>
    ELSE ExpectedBills(Head(ps)) \o ExpectedBillsOf(Tail(ps))

MonotonicTotal ==
    [][ (phase = "Running" \/ Resets) => total_cents' >= total_cents ]_vars

TimerRuns == pc = "timer" /\ pc' = "waiting"

\* a step that runs the spawn block
SpawnRuns == pc = "spawn" /\ pc' = "physics"

\* a step that runs the physics block
PhysicsRuns == pc = "physics" /\ pc' = "timer"

\* a step that handles an input event
EventRuns == pc = "event" /\ pc' # "event"

\* C5: in Celebration the counter never exceeds 100; it is 0 at entry; the
\* timer block adds one to it and keeps the phase while it was below 100, and
\* resets the session when it was 100, which is its 101st run since entry
TimedCadence ==
    /\ [](phase = "Celebration" => celebration_tick <= 100)
    /\ [][ /\ (phase # "Celebration" /\ phase' = "Celebration")
                => celebration_tick' = 0
           /\ (TimerRuns /\ phase = "Celebration" /\ celebration_tick < 100)
                => phase' = "Celebration"
                   /\ celebration_tick' = celebration_tick + 1
           /\ (TimerRuns /\ phase = "Celebration" /\ celebration_tick = 100)
                => phase' = "Running"
           /\ (Resets /\ ~EventRuns) => TimerRuns /\ celebration_tick = 100
         ]_vars

\* C5 witness: the timer block has just reset the session, no key was pressed
TimedResetDone ==
    /\ pc = "waiting"
    /\ phase = "Running"
    /\ tick_count >= CelebrationTicks
    /\ bills = <<>>
    /\ pending_bills = <<>>
    /\ celebration_tick = 0
    /\ key = None

\* C6: in Celebration a press of Enter or Space resets the session in the
\* same iteration, whatever the counter; any other key leaves the phase alone
\* (q and Esc end the loop); the celebration ends by the key or by the timer
ManualCadence ==
    [][ /\ (EventRuns /\ phase = "Celebration" /\ key' \in {"Enter", "Space"})
             => /\ phase' = "Running"
                /\ bills' = <<>>
                /\ pending_bills' = <<>>
                /\ celebration_tick' = 0
                /\ tick_count' = tick_count
                /\ pc' = "launch"
        /\ (EventRuns /\ phase = "Celebration" /\ key' \notin {"Enter", "Space"})
             => /\ phase' = "Celebration"
                /\ (key' \in {"q", "Esc"} <=> pc' = "done")
        /\ (phase = "Celebration" /\ phase' # "Celebration")
             => \/ EventRuns /\ key' \in {"Enter", "Space"}
                \/ TimerRuns /\ celebration_tick = 100
      ]_vars

\* C6 witness: Space has just reset a celebration, half-way to the timed reset
ManualResetDone ==
    /\ pc = "launch"
    /\ key = "Space"
    /\ phase = "Running"
    /\ bills = <<>>
    /\ celebration_tick = 0
    /\ tick_count >= CelebrationTicks \div 2

\* C7: the spawn block, on a tick that is a multiple of 3 with phase Running
\* and a non-empty queue, removes the head of the queue and appends one bill
\* at position 0, not settled, of age 0, with the head's amount and provider;
\* otherwise it changes neither list.  No other step adds a bill, and the
\* queue shrinks only in the spawn block or in a reset.
SpawnPolicy ==
    [][ /\ SpawnRuns =>
             IF tick_count % 3 = 0 /\ phase = "Running" /\ pending_bills # <<>>
             THEN /\ pending_bills' = Tail(pending_bills)
                  /\ Len(bills') = Len(bills) + 1
                  /\ SubSeq(bills', 1, Len(bills)) = bills
                  /\ bills'[Len(bills')].y_pos = 0
                  /\ bills'[Len(bills')].settled = FALSE
                  /\ bills'[Len(bills')].age_ticks = 0
                  /\ bills'[Len(bills')].provider = Head(pending_bills).provider
                  /\ bills'[Len(bills')].amount_cents = Head(pending_bills).amount_cents
             ELSE UNCHANGED <<bills, pending_bills>>
        /\ Len(bills') > Len(bills) => SpawnRuns
        /\ Len(pending_bills') < Len(pending_bills) => SpawnRuns \/ Resets
      ]_vars

\* C7 witness: a bill has just been spawned while others are on the screen
\* and units remain queued
SpawnedOne ==
    /\ pc = "physics"
    /\ Len(bills) >= 2
    /\ bills[Len(bills)].age_ticks = 0
    /\ pending_bills # <<>>

\* C8: any two bills in the list have targets at least a bill height apart
NoOverlap ==
    \A i, j \in 1..Len(bills) :
        i # j => Abs(bills[i].target_y - bills[j].target_y) >= 3

\* C9: a step takes the phase from Running to Celebration exactly when it is
\* the physics block and, after the physics, settled * 3 >= height - 6 with
\* the queue empty; the step sets the celebration counter to 0
OverflowDetection ==
    [][ /\ (phase = "Running" /\ phase' = "Celebration")
             => /\ PhysicsRuns
                /\ celebration_tick' = 0
                /\ pending_bills' = <<>>
        /\ (PhysicsRuns /\ phase = "Running")
             => (phase' = "Celebration"
                   <=> /\ SettledCount(bills') * 3 >= term_h - 6
                       /\ pending_bills = <<>>)
      ]_vars

\* C9 witness: the physics block has just entered Celebration over a stack
OverflowEntered ==
    /\ pc = "timer"
    /\ phase = "Celebration"
    /\ celebration_tick = 0
    /\ SettledCount(bills) >= 2

\* C10: the phase changes only Setup -> Running, Running -> Celebration and
\* Celebration -> Running
PhaseMachine ==
    [][ phase' # phase =>
          <<phase, phase'>> \in {<<"Setup", "Running">>,
                                 <<"Running", "Celebration">>,
                                 <<"Celebration", "Running">>}
      ]_vars

\* C10 witness: a session set up by the wizard has celebrated and been reset
WizardSessionReset ==
    /\ setup_step = "Confirm"
    /\ pc = "launch"
    /\ key = "Enter"
    /\ phase = "Running"
    /\ bills = <<>>
    /\ celebration_tick = 0
    /\ tick_count > start_time


-----------------------------------------------------------------------------
(* The wizard *)

\* the provider whose credential is being captured
Current == provider_configs[current_provider_idx + 1]

\* the wizard stands on step st
OnStep(st) == phase = "Setup" /\ setup_step = st

\* C11 (as stated): whenever the wizard is at Confirm, every enabled provider
\* other than Mock has a non-empty API key and an enabled Adyen a non-empty
\* merchant account.  Esc, Esc from the merchant step and Enter in
\* ProviderSelect reach Confirm with Adyen's merchant account empty.
CredentialsComplete ==
    OnStep("Confirm") =>
        \A i \in 1..Len(provider_configs) :
            (provider_configs[i].enabled /\ provider_configs[i].name # "Mock")
                => /\ provider_configs[i].api_key # <<>>
                   /\ provider_configs[i].name = "Adyen"
                         => provider_configs[i].merchant_account # <<>>


\* the wizard is capturing the API key of the provider at index i
InCapture(i) == OnStep("ProviderApiKey") /\ current_provider_idx = i

\* C12 (as stated): a provider's capture step is entered once on a run.
\* current_provider_idx is assigned only when a capture step is entered, and
\* never for index 0 (Mock), so an entry that leaves it unchanged enters the
\* capture of a provider for the second time.  Esc followed by Enter in
\* ProviderSelect, and Esc in the merchant step, are such entries.
VisitedOnce ==
    [][ (phase = "Setup" /\ setup_step # "ProviderApiKey"
           /\ setup_step' = "ProviderApiKey")
          => current_provider_idx' # current_provider_idx
      ]_vars

\* no provider of pcs at an index in lo..hi lacks an API key
NoneLacking(pcs, lo, hi) ==
    \A j \in lo..hi :
        ~(pcs[j + 1].enabled /\ pcs[j + 1].name # "Mock"
            /\ pcs[j + 1].api_key = <<>>)

\* C12: every entry into a capture step is the next one in list order.  Enter
\* in ProviderSelect goes to the first enabled provider other than Mock
\* without an API key; a committed API key goes to the merchant step of the
\* same provider if it is Adyen; otherwise a committed credential goes to the
\* next such provider further down the list; Confirm is entered only when no
\* enabled provider lacks an API key.  The only other entries are by Esc: from
\* the merchant step back to the API key of the same provider.  So on a run
\* without Esc each such provider is visited exactly once, in list order.
VisitOrder ==
    [][ phase = "Setup" =>
        /\ (setup_step = "ProviderSelect" /\ setup_step' = "ProviderApiKey")
             => /\ key' = "Enter"
                /\ provider_configs' = provider_configs
                /\ Current'.enabled /\ Current'.name # "Mock"
                /\ Current'.api_key = <<>>
                /\ NoneLacking(provider_configs, 0, current_provider_idx' - 1)
        /\ (setup_step = "ProviderApiKey" /\ setup_step' = "ProviderMerchantAccount")
             => /\ key' = "Enter"
                /\ current_provider_idx' = current_provider_idx
                /\ Current.name = "Adyen"
                /\ Current'.api_key = setup_input /\ setup_input # <<>>
        /\ (setup_step \in {"ProviderApiKey", "ProviderMerchantAccount"}
               /\ setup_step' = "ProviderApiKey"
               /\ (current_provider_idx' # current_provider_idx
                      \/ setup_step = "ProviderMerchantAccount"))
             => \/ /\ key' = "Esc"
                   /\ setup_step = "ProviderMerchantAccount"
                   /\ current_provider_idx' = current_provider_idx
                \/ /\ key' = "Enter"
                   /\ current_provider_idx' > current_provider_idx
                   /\ Current'.enabled /\ Current'.name # "Mock"
                   /\ Current'.api_key = <<>>
                   /\ NoneLacking(provider_configs', current_provider_idx + 1,
                                  current_provider_idx' - 1)
        /\ (setup_step # "Confirm" /\ setup_step' = "Confirm")
             => /\ key' = "Enter"
                /\ NoneLacking(provider_configs', 0, Len(PROVIDERS) - 1)
      ]_vars

\* C12 witness: the wizard captures Adyen's API key after Mollie's
SecondCapture ==
    /\ InCapture(2)
    /\ provider_configs[2].enabled
    /\ provider_configs[2].api_key # <<>>
    /\ Current.api_key = <<>>
    /\ key = "Enter"


\* the confirms the wizard refuses
InvalidConfirm ==
    \/ /\ OnStep("ProviderSelect")
       /\ \A i \in 1..Len(provider_configs) : ~provider_configs[i].enabled
    \/ /\ OnStep("ProviderApiKey") \/ OnStep("ProviderMerchantAccount")
       /\ setup_input = <<>>

\* C13: Enter in ProviderSelect with no provider enabled, and Enter in
\* ProviderApiKey or ProviderMerchantAccount with an empty input buffer,
\* change neither the step, the draft provider configs, the configuration
\* nor the phase.
ValidationRefused ==
    [][ (InvalidConfirm /\ key' = "Enter")
          => /\ setup_step' = setup_step
             /\ provider_configs' = provider_configs
             /\ current_provider_idx' = current_provider_idx
             /\ config' = config
             /\ phase' = phase
             /\ poll_handle' = poll_handle
      ]_vars

\* C13 witness: Enter has just been refused in ProviderSelect (the cursor
\* has moved since the step was entered, so the Enter was pressed here)
RefusedInSelect ==
    /\ OnStep("ProviderSelect")
    /\ key = "Enter"
    /\ setup_cursor > 0
    /\ \A i \in 1..Len(provider_configs) : ~provider_configs[i].enabled


\* providers [needs-key enabled, no-key enabled, disabled]: Mollie and Mock
\* enabled, Adyen disabled
ExampleSelection(pcs) == pcs[1].enabled /\ pcs[2].enabled /\ ~pcs[3].enabled

\* C14: a capture step is only ever open for an enabled provider other than
\* Mock, and the merchant-account step only for Adyen.  With Mollie and Mock
\* enabled and Adyen disabled, Enter in ProviderSelect opens Mollie's API-key
\* step, Enter there with a key typed goes to Confirm, and no step moves the
\* wizard to the merchant-account step or to the capture of another provider;
\* the currency step leads only to ProviderSelect.
PathDeterminism ==
    /\ [](OnStep("ProviderApiKey") \/ OnStep("ProviderMerchantAccount")
            => Current.enabled /\ Current.name # "Mock")
    /\ [](OnStep("ProviderMerchantAccount") => Current.name = "Adyen")
    /\ [][ phase = "Setup" =>
            /\ setup_step = "Currency"
                 => setup_step' \in {"Currency", "ProviderSelect"}
            /\ (OnStep("ProviderSelect") /\ ExampleSelection(provider_configs)
                   /\ key' = "Enter")
                 => IF provider_configs[2].api_key = <<>>
                    THEN setup_step' = "ProviderApiKey"
                         /\ current_provider_idx' = 1
                    ELSE setup_step' = "Confirm"
            /\ (InCapture(1) /\ ExampleSelection(provider_configs)
                   /\ key' = "Enter" /\ setup_input # <<>>)
                 => setup_step' = "Confirm" /\ phase' = "Setup"
            /\ (ExampleSelection(provider_configs)
                   /\ ExampleSelection(provider_configs'))
                 => /\ setup_step' # "ProviderMerchantAccount"
                    /\ setup_step' = "ProviderApiKey"
                          => current_provider_idx' = 1
          ]_vars

\* C14 witness: Confirm reached from Mollie's API-key step with Mollie and
\* Mock enabled and Adyen disabled, nothing captured for Mock or Adyen
ExamplePathDone ==
    /\ OnStep("Confirm")
    /\ key = "Enter"
    /\ ExampleSelection(provider_configs)
    /\ provider_configs[2].api_key # <<>>
    /\ provider_configs[1].api_key = <<>>
    /\ provider_configs[3].api_key = <<>>
    /\ provider_configs[3].merchant_account = <<>>


\* the indices (from 1) of the enabled providers
EnabledIdx == {i \in 1..Len(provider_configs) : provider_configs[i].enabled}

\* the place of enabled provider i among the enabled ones
Rank(i) == Cardinality({j \in EnabledIdx : j <= i})

\* C15: the session leaves Setup only by Enter in Confirm, and then the
\* configuration lists the enabled providers and no other, in list order, at
\* least one, each with its API key, Adyen with API key, '|' and merchant
\* account; no other wizard step changes the configured providers.
Finalization ==
    [][ phase = "Setup" =>
          IF phase' # "Setup"
          THEN /\ setup_step = "Confirm" /\ key' = "Enter"
               /\ phase' = "Running"
               /\ EnabledIdx # {}
               /\ Len(config'.providers) = Cardinality(EnabledIdx)
               /\ \A i \in EnabledIdx :
                    /\ config'.providers[Rank(i)].provider
                          = provider_configs[i].name
                    /\ config'.providers[Rank(i)].api_key
                          = IF provider_configs[i].name = "Adyen"
                            THEN provider_configs[i].api_key \o <<"|">>
                                   \o provider_configs[i].merchant_account
                            ELSE provider_configs[i].api_key
          ELSE config'.providers = config.providers
      ]_vars

\* C15 witness: the wizard has completed with Mock and Adyen enabled and
\* Mollie disabled
FinalizedTwo ==
    /\ phase = "Running"
    /\ key = "Enter"
    /\ setup_step = "Confirm"
    /\ EnabledIdx = {1, 3}
    /\ Len(config.providers) = 2
    /\ config.providers[2].provider = "Adyen"


-----------------------------------------------------------------------------
(* The start of the session *)

\* the loop has not yet run a block (tick_count is 0 only in the first
\* iteration, and pc returns to "drain" only after it has advanced)
AtStart == tick_count = 0 /\ pc = "drain"

\* C16: at the start the phase is Running exactly when the configuration in
\* use lists a provider (only a loaded one can: the default lists none);
\* otherwise, configuration missing, corrupt or without providers, it is
\* Setup at the currency step, and no polling task exists yet.
InitialPhase ==
    AtStart =>
        /\ phase = (IF config.providers # <<>> THEN "Running" ELSE "Setup")
        /\ config.providers = <<>> => setup_step = "Currency"
        /\ ~poll_handle.launched

\* C16 witness: a configuration was loaded (its currency is not the
\* default's) that lists no provider, and the session starts in Setup
LoadedEmptyStart ==
    /\ AtStart
    /\ config.currency = "USD"
    /\ config.providers = <<>>
    /\ phase = "Setup"
    /\ setup_step = "Currency"


-----------------------------------------------------------------------------
(* The polling task *)

\* the names of the providers the polling task fetches from
Polled == {poll_handle.providers[j].name : j \in 1..Len(poll_handle.providers)}

\* C17 (as stated): once the polling task is launched, every provider the
\* configuration names is polled, with since the session's start time.
\* build_providers has no arm for Mollie, so a configured Mollie is not.
PollersCover ==
    poll_handle.launched =>
        /\ \A i \in 1..Len(config.providers) :
               config.providers[i].provider \in Polled
        /\ poll_handle.since = start_time

\* C18 (as stated): providers are polled independently, so while the answer
\* to Adyen's request is outstanding a fetch from Mock can still take place
\* and deliver.  poll_payments awaits one fetch at a time, in list order.
ProviderIndependence ==
    (/\ poll_handle.launched /\ pc # "done"
     /\ tick_count < poll_handle.since + PollWindow
     /\ Len(channel) < MaxChan
     /\ "Mock" \in Polled
     /\ Fetching("Adyen") /\ ~response.arrived)
        => ENABLED MockFetch

\* the answer being converted makes the fetch return an error
ErrorAnswer ==
    /\ response.arrived
    /\ ~adyen_fetch(response, poll_handle.since, tick_count).ok

\* a step in which the polling task finishes a fetch from Adyen
Converts == response.arrived /\ ~response'.arrived

\* C19: a fetch that returns an error sends nothing and changes nothing of
\* the session; the task goes on to the next provider of the list, and from
\* the last to the first, so the failed provider is fetched again in the next
\* cycle; no step of the polling task changes the session or ends the task,
\* and no empty batch is ever on the channel.
FailureIsolation ==
    /\ [](\A i \in 1..Len(channel) : channel[i] # <<>>)
    /\ [][ /\ (Converts /\ ErrorAnswer)
                => /\ channel' = channel
                   /\ UNCHANGED app_vars
                   /\ poll_pos' = (poll_pos + 1) % Len(poll_handle.providers)
           /\ (poll_pos' # poll_pos \/ response' # response)
                => /\ UNCHANGED <<app_vars, poll_handle, pc, tick_count>>
                   /\ \/ channel' = channel
                      \/ /\ Len(channel') = Len(channel) + 1
                         /\ SubSeq(channel', 1, Len(channel)) = channel
           /\ poll_handle.launched => poll_handle' = poll_handle
          ]_vars

\* C19 witness: Adyen, first of two providers, has answered with a failure;
\* Mock is still to be fetched in this cycle
ErrorBeforeMock ==
    /\ ErrorAnswer
    /\ ~response.success
    /\ poll_pos = 0
    /\ Len(poll_handle.providers) = 2
    /\ poll_handle.providers[2].name = "Mock"

\* a record whose amount and timestamp both parse
WellFormed(ap) == ap.value_is_i64 /\ ap.date_is_rfc3339

\* the payments of the well-formed records of a body that are not older
\* than since
RECURSIVE WellFormedPayments(_, _)
WellFormedPayments(data, since) ==
    IF data = <<>> THEN <<>>
    ELSE LET rest == WellFormedPayments(Tail(data), since)
             ap == Head(data)
         IN  IF WellFormed(ap) /\ ap.creation_date >= since
             THEN <<Payment(ap.psp_reference, ap.value, "Adyen")>> \o rest
             ELSE rest

\* C20 (as stated): of a successful answer, the records whose amount or
\* timestamp does not parse are dropped and the others are delivered.  A
\* value that is not an integer fails the whole body, and a record whose
\* date does not parse is delivered with the current time.
MalformedDropped ==
    [][ (Converts /\ response.success)
          => LET good == WellFormedPayments(response.data, poll_handle.since)
             IN  channel' = IF good = <<>> THEN channel
                            ELSE Append(channel, good)
      ]_vars

\* ---------------------------------------------------------------------------
\* Settling, convergence and the order of spawning
\* ---------------------------------------------------------------------------

\* the units present before and after a step (a reset empties the list)
Kept == IF Len(bills') >= Len(bills) THEN 1..Len(bills) ELSE {}

\* a step that runs tick_animations
Ticks == PhysicsRuns /\ phase = "Running"

\* 0.7 times a distance, in thousandths of a row (rounded up)
Shrunk(d) == (7 * d + 9) \div 10

\* the distance left of D rows after k ticks of a fall: D * 0.7^k
RECURSIVE RemainingAfter(_, _)
RemainingAfter(D, k) ==
    IF k = 0 THEN D * Scale ELSE Shrunk(RemainingAfter(D, k - 1))

\* the number of ticks after which a unit with distance d left is settled:
\* one tick for each multiplication by 0.7 until d is below one row, and the
\* tick that finds it there
RECURSIVE SettleAfter(_)
SettleAfter(d) == IF d < Scale THEN 1 ELSE 1 + SettleAfter(Shrunk(d))

\* C21: settled is terminal.  For every unit kept by a step: its target never
\* changes; a settled unit stays settled and keeps its position; a unit that
\* turns settled is at its target; age_ticks grows by one in a Running tick
\* and is unchanged in every other step.
SettledTerminal ==
    [][ \A i \in Kept :
          LET b == bills[i]
              c == bills'[i]
          IN  /\ c.target_y = b.target_y
              /\ b.settled => (c.settled /\ c.y_pos = b.y_pos)
              /\ (~b.settled /\ c.settled) => c.y_pos = c.target_y * Scale
              /\ c.age_ticks = IF Ticks THEN b.age_ticks + 1 ELSE b.age_ticks
      ]_vars

\* a unit that fell, settled on its target and has been ticked since
SettledAndAged ==
    \E i \in 1..Len(bills) :
        /\ bills[i].settled
        /\ bills[i].target_y > 0
        /\ bills[i].y_pos = bills[i].target_y * Scale
        /\ bills[i].age_ticks > SettleAfter(bills[i].target_y * Scale)

\* C22: convergent physics.  A unit with a target D > 0 that is not settled
\* after k ticks is at distance D * 0.7^k from its target, and every earlier
\* distance was at least one row; a Running tick settles it exactly when that
\* distance is below one row.  So a unit is in flight for fewer than
\* SettleAfter(D) ticks, and a settled one has been ticked at least that often.
ConvergentPhysics ==
    /\ [](\A i \in 1..Len(bills) :
            LET b == bills[i]
            IN  b.target_y > 0 =>
                  IF b.settled
                  THEN b.age_ticks >= SettleAfter(b.target_y * Scale)
                  ELSE /\ b.target_y * Scale - b.y_pos
                            = RemainingAfter(b.target_y, b.age_ticks)
                       /\ b.age_ticks > 0 =>
                            RemainingAfter(b.target_y, b.age_ticks - 1) >= Scale
                       /\ b.age_ticks < SettleAfter(b.target_y * Scale))
    /\ [][ Ticks =>
            \A i \in Kept :
              (bills[i].target_y > 0 /\ ~bills[i].settled) =>
                (bills'[i].settled
                   <=> bills[i].target_y * Scale - bills[i].y_pos < Scale)
       ]_vars

\* a unit in flight that has been ticked three times or more
ConvergingUnit ==
    \E i \in 1..Len(bills) :
        /\ ~bills[i].settled
        /\ bills[i].target_y > 0
        /\ bills[i].age_ticks >= 3
        /\ bills[i].y_pos > 0

\* the provider tags of a sequence of units
Tags(units) == [i \in 1..Len(units) |-> units[i].provider]

IsPrefix(s, t) == Len(s) <= Len(t) /\ SubSeq(t, 1, Len(s)) = s

\* the tags of the units enqueued since the last reset, in the order of
\* enqueueing: those spawned, then those waiting
Enqueued == Tags(bills) \o Tags(pending_bills)

\* C23: FIFO spawn.  In every step but a reset, the sequence of tags enqueued
\* since the last reset only grows at its end, and the tags of the units
\* created stay a prefix of it and grow only at their end; a step that creates
\* a unit creates one, from the head of the queue, and leaves the rest of
\* the queue as it was; a step that creates none only appends to the queue.
FifoSpawn ==
    [][ ~Resets =>
          /\ IsPrefix(Enqueued, Enqueued')
          /\ IsPrefix(Tags(bills), Tags(bills'))
          /\ IF Len(bills') > Len(bills)
             THEN /\ SpawnRuns
                  /\ Len(bills') = Len(bills) + 1
                  /\ bills'[Len(bills')].provider = Head(pending_bills).provider
                  /\ pending_bills' = Tail(pending_bills)
             ELSE IsPrefix(pending_bills, pending_bills')
      ]_vars

\* units of one provider were created while units of another wait
SpawnedAheadOfOther ==
    /\ Len(bills) >= 2
    /\ \E j \in 1..Len(pending_bills) :
          pending_bills[j].provider # bills[1].provider

\* ---------------------------------------------------------------------------
\* The drain of the channel and the ledger
\* ---------------------------------------------------------------------------

\* the ids of the payments waiting in the channel
InChannel ==
    UNION {{channel[i][j].id : j \in 1..Len(channel[i])} :
              i \in 1..Len(channel)}

\* the ledger after a step
LedgerAfter ==
    [seen_ids |-> seen_ids', total_cents |-> total_cents',
     pending_bills |-> pending_bills', session_payments |-> session_payments']

\* the loop has a drain ahead of it within max_ticks iterations
DrainAhead(max_ticks) ==
    \/ tick_count < max_ticks - 1
    \/ tick_count < max_ticks /\ pc \in {"drain", "event", "launch"}

\* the ids of the payments of the history
HistoryIds == {session_payments[i].id : i \in 1..Len(session_payments)}

\* C26: ledger consistency.  The ids of session_payments are pairwise
\* distinct, their set is seen_ids, and total_cents is the sum of the amounts
\* of session_payments.
LedgerConsistency ==
    /\ \A i, j \in 1..Len(session_payments) :
          session_payments[i].id = session_payments[j].id => i = j
    /\ HistoryIds = seen_ids
    /\ total_cents = SumAmounts(session_payments)

\* two payments were accepted and units of them are falling and waiting
LedgerOfTwo ==
    /\ Len(session_payments) = 2
    /\ Cardinality(seen_ids) = 2
    /\ total_cents # 0
    /\ pending_bills # <<>>
    /\ bills # <<>>

\* C24: drain-all per tick.  Whatever the phase, the channel changes only by
\* a batch appended at its end or by the drain taking its first batch, whose
\* payments are passed to add_payment in order; the loop leaves the drain only
\* with the channel empty; and while the loop keeps running, every payment in
\* the channel is eventually passed to add_payment (its id is then seen).
DrainAll ==
    /\ [][ channel' # channel =>
             \/ /\ Len(channel') = Len(channel) + 1
                /\ SubSeq(channel', 1, Len(channel)) = channel
             \/ /\ pc = "drain" /\ pc' = "drain"
                /\ channel # <<>>
                /\ channel' = Tail(channel)
                /\ LedgerAfter = AddPayments(Ledger, Head(channel))
       ]_vars
    /\ [][ (pc = "drain" /\ pc' # "drain")
             => (channel = <<>> /\ channel' = <<>>) ]_vars
    /\ \A id \in Ids :
          (id \in InChannel /\ DrainAhead(FairTicks)) ~> (id \in seen_ids)

\* the first drain after the launch has taken two batches and left the
\* channel empty
DrainedTwo ==
    /\ pc = "spawn"
    /\ tick_count = 1
    /\ Len(session_payments) = 2
    /\ channel = <<>>

\* ---------------------------------------------------------------------------
\* The cancel key of the wizard, and the units dropped by a reset
\* ---------------------------------------------------------------------------

\* the step Esc leads to from a capture step or from Confirm
CancelTarget(st) ==
    CASE st = "ProviderApiKey" -> "ProviderSelect"
      [] st = "ProviderMerchantAccount" -> "ProviderApiKey"
      [] st = "Confirm" -> "ProviderSelect"

\* C25: wizard cancel.  Esc in ProviderApiKey leads to ProviderSelect, in
\* ProviderMerchantAccount to ProviderApiKey, in Confirm to ProviderSelect;
\* no provider's key or merchant account, no selection, index or
\* configuration changes, the buffer is committed nowhere (it is emptied in
\* the capture steps), the phase stays Setup and no polling task is launched.
WizardCancel ==
    [][ (phase = "Setup" /\ key' = "Esc"
           /\ setup_step \in {"ProviderApiKey", "ProviderMerchantAccount",
                              "Confirm"})
          => /\ setup_step' = CancelTarget(setup_step)
             /\ provider_configs' = provider_configs
             /\ config' = config
             /\ current_provider_idx' = current_provider_idx
             /\ setup_cursor' = setup_cursor
             /\ setup_currency_idx' = setup_currency_idx
             /\ setup_input' = (IF setup_step = "Confirm" THEN setup_input
                                ELSE <<>>)
             /\ phase' = "Setup"
             /\ poll_handle' = poll_handle
      ]_vars

\* Esc has just cancelled the merchant step of a provider whose key was
\* committed before
CancelledMerchant ==
    /\ OnStep("ProviderApiKey")
    /\ key = "Esc"
    /\ Current.api_key # <<>>
    /\ Current.merchant_account = <<>>

\* C27 (as stated): no lost units.  A unit leaves the queue only by being
\* spawned: in every step the queue is extended at its end, or loses its
\* first unit to a spawn that creates one AnimatedUnit.  reset_session clears
\* the queue, and with it the units of the payments drained in Celebration,
\* which no spawn has taken (the spawn block runs in Running only).
NoLostUnits ==
    [][ pending_bills' # pending_bills =>
          \/ IsPrefix(pending_bills, pending_bills')
          \/ /\ pending_bills # <<>>
             /\ pending_bills' = Tail(pending_bills)
             /\ Len(bills') = Len(bills) + 1
      ]_vars

\* ---------------------------------------------------------------------------
\* The polling task, the indices of the wizard, the entry into Celebration
\* ---------------------------------------------------------------------------

\* C28: single poller.  At most one polling task is ever spawned; the handle
\* is set exactly when one was, and then the phase is not Setup; once set it
\* never changes, whatever resets follow, so the task's since stays what it
\* was at the launch, the start_time of the session.
SinglePoller ==
    /\ [](/\ poll_handle.tasks <= 1
          /\ poll_handle.launched <=> poll_handle.tasks = 1
          /\ poll_handle.launched =>
                (phase # "Setup" /\ poll_handle.since = start_time))
    /\ [][ poll_handle.launched => poll_handle' = poll_handle ]_vars

\* the session was reset (a payment's units are neither waiting nor on the
\* screen), the launch block has run since, and the one task goes on
OnePollerAfterReset ==
    /\ phase = "Running"
    /\ pc = "drain"
    /\ poll_handle.launched
    /\ bills = <<>>
    /\ pending_bills = <<>>
    /\ \E i \in 1..Len(session_payments) :
          session_payments[i].amount_cents >= UnitDenomination

\* C30: wizard indices stay in range.  In Setup, after any keys,
\* setup_currency_idx is an index of CURRENCIES, setup_cursor and
\* current_provider_idx are indices of provider_configs (one entry for each
\* of PROVIDERS), and in the two capture steps current_provider_idx names an
\* enabled provider other than Mock; the slice taken by
\* advance_to_next_provider_or_confirm starts at most at the end.
IndicesInRange ==
    phase = "Setup" =>
        /\ setup_currency_idx \in 0..(Len(CURRENCIES) - 1)
        /\ Len(provider_configs) = Len(PROVIDERS)
        /\ setup_cursor \in 0..(Len(provider_configs) - 1)
        /\ current_provider_idx \in 0..(Len(provider_configs) - 1)
        /\ current_provider_idx + 1 <= Len(provider_configs)
        /\ setup_step \in {"ProviderApiKey", "ProviderMerchantAccount"}
              => (Current.enabled /\ Current.name # "Mock")

\* the merchant account of the last provider was committed with the ninth
\* key, the shortest way there, and the search from past the end of the list
\* led to Confirm
AdvancedPastLast ==
    /\ OnStep("Confirm")
    /\ key = "Enter"
    /\ tick_count = 9
    /\ current_provider_idx = Len(provider_configs) - 1
    /\ Current.merchant_account # <<>>

\* C29 (as stated): Celebration needs a stack.  Whatever the height, a step
\* that enters Celebration leaves at least one settled unit on the screen,
\* and a session that has accepted no payment is not in Celebration.  With
\* a height of 6 rows or less the capacity height - 6 saturates at 0, which
\* an empty stack reaches.
CelebrationNeedsStack ==
    /\ [][ (phase # "Celebration" /\ phase' = "Celebration")
             => SettledCount(bills') >= 1 ]_vars
    /\ [](session_payments = <<>> => phase # "Celebration")

\* ---------------------------------------------------------------------------
\* The Adyen credential from the wizard to the polling task
\* ---------------------------------------------------------------------------

\* the polling task holds an Adyen provider with this key and merchant account
AdyenPolledWith(api_key, merchant_account) ==
    \E j \in 1..Len(poll_handle.providers) :
        poll_handle.providers[j] = [name |-> "Adyen", api_key |-> api_key,
                                    merchant_account |-> merchant_account]

\* C31 (as stated): Adyen credential round-trip.  Once the wizard has
\* launched the polling task, an enabled Adyen whose API key and merchant
\* account were typed non-empty is polled with that very pair, and an Adyen
\* entry of the configuration without a '|' yields no Adyen provider.  The
\* key may hold a '|' (any character is pushed to the buffer), and the
\* combined credential is split at its first '|'.
CredentialRoundTrip ==
    poll_handle.launched =>
        /\ \A i \in 1..Len(provider_configs) :
              (/\ provider_configs[i].enabled
               /\ provider_configs[i].name = "Adyen"
               /\ provider_configs[i].api_key # <<>>
               /\ provider_configs[i].merchant_account # <<>>)
                 => AdyenPolledWith(provider_configs[i].api_key,
                                    provider_configs[i].merchant_account)
        /\ (\A i \in 1..Len(config.providers) :
               config.providers[i].provider = "Adyen"
                  => ~Contains(config.providers[i].api_key, "|"))
              => "Adyen" \notin Polled

=============================================================================
